---- MODULE Spec2Model ----
(***************************************************************************)
(* A model of one telepresence session: connect() of                       *)
(* telepresence/connect/__init__.py builds the tunnel topology,            *)
(* run_local_command() of telepresence/local.py launches the user command, *)
(* and the runner's cleanup registry is unwound when the session ends.     *)
(*                                                                         *)
(* The orchestrator is one sequential thread; pc is the statement it is    *)
(* about to execute.  The child processes it launches run on their own:    *)
(* a launched listener starts listening (or exits on a bind error) in a    *)
(* step of its own.                                                        *)
(***************************************************************************)
EXTENDS Naturals, Integers, Sequences, FiniteSets, TLC

\* ------------------------------------------------------------- bounds
\* Local TCP ports the operating system can hand out.
MaxPort == 3

\* The longest a single probe invocation that does return takes, in ticks.
MaxProbeTicks == 104

\* How many times a session's cleanup actions are invoked again.
MaxReinvoke == 2

\* ---------------------------------------------------- program constants
\* One tick is the retry interval, sleep(0.1): local.py line 125.
SleepTicks == 1

\* The retry budget, "time() - start < 10" seconds, in ticks of 0.1 s.
TimeoutTicks == 100

\* The fixed remote-side ports of the forwarding legs, of forward_args.
REMOTE_SOCKS_PORT == 9050

REMOTE_POLL_PORT == 9055

\* telepresence.startup.MAC_LOOPBACK_IP, an address of the reserved test range.
MAC_LOOPBACK_IP == "198.18.0.254"

LOOPBACK == "127.0.0.1"

\* The exit status of a stub tool, "exit 55" of NICE_FAILURE.
STUB_EXIT_STATUS == 55

\* ------------------------------------------------------------- domains
Methods == {"container", "inject-tcp", "vpn-tcp"}

Platforms == {"linux", "darwin"}

Ports == 1..MaxPort

NoPort == 0

\* The child processes of a session, by the name they are launched under.
Legs == {"kubectl port-forward", "socat for docker", "local server",
         "SSH port forward"}

ProcNames == Legs \cup {"kubectl logs", "sshuttle", "user"}

\* How long a probe invocation that returns can take.
ProbeDurations == {20, 45, MaxProbeTicks}

\* What "ip addr show dev docker0" or "ifconfig docker0" can print, as tokens.
ToolOutputs == { <<"docker0">>,
                 <<"docker0", "inet", "172.17.0.1", "172.17.255.255">>,
                 <<"docker0", "inet", "10.0.0.1">> }

IPv4Tokens == {"172.17.0.1", "172.17.255.255", "10.0.0.1"}

\* A search path string, as the sequence of its tokens: a directory name or
\* the separator ":".  The ambient $PATH a session can start with: a mixed
\* one, one of protected directories only, and the empty string.
AmbientPaths == { <<"/usr/local/bin", ":", "/usr/bin", ":", "/bin">>,
                  <<"/usr/bin", ":", "/bin", ":", "/usr/sbin", ":", "/sbin">>,
                  <<>> }

\* protected = {"/bin", "/sbin", "/usr/sbin", "/usr/bin"}
protected == {"/bin", "/sbin", "/usr/sbin", "/usr/bin"}

\* os.listdir(directory) of the protected directories.
ListDir(directory) ==
    CASE directory = "/bin"      -> {"bash", "ls"}
      [] directory = "/sbin"     -> {"ping"}
      [] directory = "/usr/sbin" -> {"traceroute"}
      [] directory = "/usr/bin"  -> {"dig", "host", "nslookup", "sudo"}
      [] OTHER                   -> {}

\* The files whose copy can raise IOError.
MaybeUnreadable == {"sudo"}

\* The directories runner.make_temp() creates, empty, for the stubs and for
\* the copies of the protected directories.
unsupported_bin == "unsup_bin"

bin_dir == "sip_bin"

VARIABLES
    method,           \* cmdline_args.method
    platform,         \* runner.platform
    pc,               \* the statement the orchestrator is about to execute
    error,            \* why setup failed, "none" while it has not
    procs,            \* each child process: none, launched, live, dead
    sshState,         \* the SSH session: new, confirmed, failed
    registry,         \* the cleanup registry, in registration order
    regLog,           \* every registration of the session, in order
    ran,              \* the cleanup actions run so far, in the order run
    cleanupErrors,    \* the cleanup invocations that raised
    alias,            \* the lo0 alias MAC_LOOPBACK_IP exists
    dockerInterface,  \* docker_interface, "" before it is resolved
    sshPort,          \* ssh.port
    socksPort,        \* socks_port
    localServerPort,  \* local_server_port
    exposed,          \* calls of expose_local_services
    events,           \* the trace of the inject-tcp launch
    attempts,         \* probe invocations of setup_torsocks
    elapsed,          \* time() - start, in ticks
    connectResult,    \* connect(): pending, returned
    reinvoked,        \* cleanup actions invoked again after they ran
    dockerProbe,      \* what the docker0 lookup found installed and printed
    stubs,            \* the files of the stub directory
    path,             \* env["PATH"], tokens as in AmbientPaths
    sipBin            \* the files of the sip_bin directory

vars == <<method, platform, pc, error, procs, sshState, registry, regLog, ran,
          cleanupErrors, alias, dockerInterface, sshPort, socksPort,
          localServerPort, exposed, events, attempts, elapsed, connectResult,
          reinvoked, dockerProbe, stubs, path, sipBin>>

\* ------------------------------------------------------------- helpers
RECURSIVE Reverse(_)
Reverse(s) == IF s = <<>> THEN <<>> ELSE Append(Reverse(Tail(s)), Head(s))

Range(s) == { s[i] : i \in 1..Len(s) }

KillAction(p) == [name |-> "Kill BG process", proc |-> p]

MacLoopbackAction == [name |-> "Mac Loopback", proc |-> "lo0"]

TerminateAction == [name |-> "Terminate local process", proc |-> "user"]

\* re.findall(r"(\d+\.\d+\.\d+\.\d+)", output): the IPv4-looking tokens, in order.
IsIPv4(tok) == tok \in IPv4Tokens

FindAllIPv4(output) == SelectSeq(output, IsIPv4)

\* Faulty variant: the SOCKS forward is requested without a bind address,
\* "-L{}:127.0.0.1:9050", so that it listens on every interface.
BindAddr_ForwardOnAnyAddress(p) ==
    CASE p = "kubectl port-forward" -> LOOPBACK
      [] p = "socat for docker"     -> dockerInterface
      [] p = "local server"         -> LOOPBACK
      [] p = "SSH port forward"     -> "0.0.0.0"
      [] OTHER                      -> ""

\* The (address, port) each listener binds once it is up.
BindAddr(p) ==
    CASE p = "kubectl port-forward" -> LOOPBACK
      [] p = "socat for docker"     -> dockerInterface
      [] p = "local server"         -> LOOPBACK
      [] p = "SSH port forward"     -> LOOPBACK
      [] OTHER                      -> ""

BindPort(p) ==
    CASE p = "kubectl port-forward" -> sshPort
      [] p = "socat for docker"     -> sshPort
      [] p = "local server"         -> localServerPort
      [] p = "SSH port forward"     -> socksPort
      [] OTHER                      -> NoPort

\* The local ports some live listener holds, on whatever address.
BoundPorts == { BindPort(p) : p \in { q \in Legs : procs[q] = "live" } }

\* find_free_port(): bind port 0 on every interface, read the port the OS
\* chose, close the socket.  The OS chooses among the ports nothing holds.
FreePorts == Ports \ BoundPorts

\* runner.add_cleanup(name, callable): push on the registry.
AddCleanup(a) ==
    /\ registry' = Append(registry, a)
    /\ regLog' = Append(regLog, a)

\* runner.launch(name, cmd): start the child and register its kill.
Launch(p) ==
    /\ procs' = [procs EXCEPT ![p] = "launched"]
    /\ AddCleanup(KillAction(p))

\* A failed step: the error propagates and the session goes to teardown.
Fail(kind) ==
    /\ pc' = "cleanup"
    /\ error' = kind

\* ------------------------------------------------- search path strings
\* existing_paths.split(":"): the entries between the separators, an empty
\* entry where two separators meet or the string begins or ends with one.
RECURSIVE Split(_)
Split(str) ==
    IF \A i \in 1..Len(str) : str[i] /= ":"
    THEN << IF str = <<>> THEN "" ELSE str[1] >>
    ELSE LET k == CHOOSE i \in 1..Len(str) :
                     /\ str[i] = ":"
                     /\ \A j \in 1..(i - 1) : str[j] /= ":"
         IN << IF k = 1 THEN "" ELSE str[1] >>
                \o Split(SubSeq(str, k + 1, Len(str)))

\* ":".join(paths)
RECURSIVE Join(_)
Join(paths) ==
    IF paths = <<>> THEN <<>>
    ELSE (IF Head(paths) = "" THEN <<>> ELSE << Head(paths) >>)
            \o (IF Len(paths) > 1 THEN <<":">> \o Join(Tail(paths)) ELSE <<>>)

\* ------------------------------------------------------ the stub tools
\* NICE_FAILURE.format(command): a script that says the command is not
\* supported under Telepresence and exits with status 55.
NICE_FAILURE(command) == [says |-> command, exit |-> STUB_EXIT_STATUS]

\* args.method != "inject-tcp", the dns_supported argument.
DnsSupported(m) == m /= "inject-tcp"

\* Faulty variant: the name-resolution tools are shadowed for every method.
get_unsupported_tools_ShadowsAll(dns_supported) ==
    LET commands == <<"ping", "traceroute", "nslookup", "dig", "host">>
    IN { [name |-> commands[i], script |-> NICE_FAILURE(commands[i]),
          executable |-> TRUE] : i \in 1..Len(commands) }

\* get_unsupported_tools(runner, dns_supported): the files written into the
\* fresh unsup_bin directory, each chmod 0o755.
get_unsupported_tools(dns_supported) ==
    LET commands == <<"ping", "traceroute">>
                       \o (IF ~dns_supported
                           THEN <<"nslookup", "dig", "host">> ELSE <<>>)
    IN { [name |-> commands[i], script |-> NICE_FAILURE(commands[i]),
          executable |-> TRUE] : i \in 1..Len(commands) }

\* Faulty variant: sip_bin is not inserted in the search path.
sip_workaround_NoCopiesDir(existing_paths, unsupported_tools_path) ==
    LET kept == SelectSeq(Split(existing_paths), LAMBDA p : p \notin protected)
    IN Join(<<unsupported_tools_path>> \o kept)

\* Faulty variant: the stub directory is not put back in front of the copies.
sip_workaround_CopiesFirst(existing_paths, unsupported_tools_path) ==
    LET kept == SelectSeq(Split(existing_paths), LAMBDA p : p \notin protected)
    IN Join(<<bin_dir>> \o kept)

\* sip_workaround(runner, existing_paths, unsupported_tools_path): the new
\* $PATH, without the protected directories, behind sip_bin and, first, the
\* stub directory.
sip_workaround(existing_paths, unsupported_tools_path) ==
    LET kept == SelectSeq(Split(existing_paths), LAMBDA p : p \notin protected)
    IN Join(<<unsupported_tools_path>> \o (<<bin_dir>> \o kept))

\* The copies sip_workaround leaves in sip_bin when the copy of the files in
\* unreadable raised IOError.
SipCopies(unreadable) ==
    UNION { ListDir(directory) : directory \in protected } \ unreadable

\* ----------------------------------------------------------------- Init
Init ==
    /\ method \in Methods
    /\ platform \in Platforms
    /\ pc = "c_logs"
    /\ error = "none"
    /\ procs = [p \in ProcNames |-> "none"]
    /\ sshState = "new"
    /\ registry = <<>>
    /\ regLog = <<>>
    /\ ran = <<>>
    /\ cleanupErrors = <<>>
    /\ alias = FALSE
    /\ dockerInterface = ""
    /\ sshPort = NoPort
    /\ socksPort = NoPort
    /\ localServerPort = NoPort
    /\ exposed = 0
    /\ events = <<>>
    /\ attempts = 0
    /\ elapsed = 0
    /\ connectResult = "pending"
    /\ reinvoked = <<>>
    /\ dockerProbe = <<>>
    /\ stubs = {}
    /\ path = <<>>
    /\ sipBin = {}

\* ------------------------------------------------------------ connect()
cfgVars == <<method, platform>>

regVars == <<registry, regLog>>

cleanVars == <<ran, cleanupErrors>>

torVars == <<events, attempts, elapsed>>

topoVars == <<procs, sshState, alias, dockerInterface, sshPort, socksPort,
              localServerPort, exposed>>

envVars == <<stubs, path, sipBin>>

connectVars == <<cfgVars, cleanVars, torVars, connectResult, reinvoked,
                 dockerProbe, envVars>>

\* runner.launch("kubectl logs", ...)
LaunchKubectlLogs ==
    /\ pc = "c_logs"
    /\ Launch("kubectl logs")
    /\ pc' = "c_ssh"
    /\ UNCHANGED <<error, sshState, alias, dockerInterface, sshPort, socksPort,
                   localServerPort, exposed>>
    /\ UNCHANGED connectVars

\* ssh = SSH(runner, find_free_port())
NewSSH ==
    /\ pc = "c_ssh"
    /\ \E port \in FreePorts : sshPort' = port
    /\ pc' = "c_pf"
    /\ UNCHANGED <<error, procs, sshState, registry, regLog, alias,
                   dockerInterface, socksPort, localServerPort, exposed>>
    /\ UNCHANGED connectVars

\* Where connect() goes after launching the port-forward: the container
\* branch (per platform), or straight to ssh.wait().
AfterPortForward(m, pl) ==
    IF m = "container"
    THEN IF pl = "linux" THEN "c_docker_if" ELSE "c_req_ifconfig"
    ELSE "c_ssh_wait"

\* Faulty variant: the port-forward is not launched before the legs that use it.
LaunchPortForward_Omitted ==
    /\ pc = "c_pf"
    /\ pc' = AfterPortForward(method, platform)
    /\ UNCHANGED <<error, procs, sshState, alias, dockerInterface, sshPort,
                   socksPort, localServerPort, exposed>>
    /\ UNCHANGED <<regVars, connectVars>>

\* runner.launch("kubectl port-forward", port-forward pod ssh.port:8022)
LaunchPortForward ==
    /\ pc = "c_pf"
    /\ Launch("kubectl port-forward")
    /\ pc' = AfterPortForward(method, platform)
    /\ UNCHANGED <<error, sshState, alias, dockerInterface, sshPort, socksPort,
                   localServerPort, exposed>>
    /\ UNCHANGED connectVars

\* Faulty variant: ifconfig is preferred to ip.
DockerInterfaces_IfconfigFirst(missing, ipOut, ifconfigOut) ==
    IF "ifconfig" \notin missing THEN FindAllIPv4(ifconfigOut)
    ELSE IF "ip" \notin missing THEN FindAllIPv4(ipOut)
    ELSE <<>>

\* The docker0 addresses connect() reads on Linux given the absent tools and
\* what each tool prints: ip when present, else ifconfig, else nothing to read.
DockerInterfaces(missing, ipOut, ifconfigOut) ==
    IF "ip" \notin missing THEN FindAllIPv4(ipOut)
    ELSE IF "ifconfig" \notin missing THEN FindAllIPv4(ifconfigOut)
    ELSE <<>>

\* What a tool can print about docker0: nothing when it is not installed.
PrintedBy(tool, missing) == IF tool \in missing THEN {<<>>} ELSE ToolOutputs

\* Linux: runner.depend(["ip", "ifconfig"]), read docker0, take the first address.
ResolveDockerInterface ==
    /\ pc = "c_docker_if"
    /\ \E missing \in SUBSET {"ip", "ifconfig"} :
       \E ipOut \in PrintedBy("ip", missing),
          ifconfigOut \in PrintedBy("ifconfig", missing) :
         LET found == DockerInterfaces(missing, ipOut, ifconfigOut) IN
         /\ IF missing = {"ip", "ifconfig"}
            THEN Fail("NoIpOrIfconfig") /\ UNCHANGED dockerInterface
            ELSE IF Len(found) = 0
            THEN Fail("NoDockerInterface") /\ UNCHANGED dockerInterface
            ELSE /\ dockerInterface' = found[1]
                 /\ pc' = "c_req_socat"
                 /\ UNCHANGED error
         /\ dockerProbe' = <<[missing |-> missing, ip |-> ipOut,
                              ifconfig |-> ifconfigOut]>>
    /\ UNCHANGED <<procs, sshState, registry, regLog, alias, sshPort, socksPort,
                   localServerPort, exposed>>
    /\ UNCHANGED <<cfgVars, cleanVars, torVars, connectResult, reinvoked,
                   envVars>>

\* runner.require(tools, ...): pass when present, fail when absent.
Require(at, next, kind) ==
    /\ pc = at
    /\ \E present \in BOOLEAN :
         IF present THEN pc' = next /\ UNCHANGED error ELSE Fail(kind)
    /\ UNCHANGED <<procs, sshState, registry, regLog, alias, dockerInterface,
                   sshPort, socksPort, localServerPort, exposed>>
    /\ UNCHANGED connectVars

\* macOS: runner.require(["ifconfig"], ...)
RequireIfconfig == Require("c_req_ifconfig", "c_sudo", "MissingIfconfig")

\* macOS: runner.require_sudo()
RequireSudo == Require("c_sudo", "c_alias", "NoSudo")

\* macOS: runner.check_call(["sudo", "ifconfig", "lo0", "alias", MAC_LOOPBACK_IP])
AddLoopbackAlias ==
    /\ pc = "c_alias"
    /\ \E ok \in BOOLEAN :
         IF ok
         THEN alias' = TRUE /\ pc' = "c_alias_reg" /\ UNCHANGED error
         ELSE Fail("AliasFailed") /\ UNCHANGED alias
    /\ UNCHANGED <<procs, sshState, registry, regLog, dockerInterface, sshPort,
                   socksPort, localServerPort, exposed>>
    /\ UNCHANGED connectVars

\* Faulty variant: the alias is added but its removal is never registered.
RegisterLoopbackCleanup_Unregistered ==
    /\ pc = "c_alias_reg"
    /\ dockerInterface' = MAC_LOOPBACK_IP
    /\ pc' = "c_req_socat"
    /\ UNCHANGED <<error, procs, sshState, alias, sshPort, socksPort,
                   localServerPort, exposed>>
    /\ UNCHANGED <<regVars, connectVars>>

\* macOS: runner.add_cleanup("Mac Loopback", ...); docker_interface = MAC_LOOPBACK_IP
RegisterLoopbackCleanup ==
    /\ pc = "c_alias_reg"
    /\ AddCleanup(MacLoopbackAction)
    /\ dockerInterface' = MAC_LOOPBACK_IP
    /\ pc' = "c_req_socat"
    /\ UNCHANGED <<error, procs, sshState, alias, sshPort, socksPort,
                   localServerPort, exposed>>
    /\ UNCHANGED connectVars

\* runner.require(["socat"], ...)
RequireSocat == Require("c_req_socat", "c_socat", "MissingSocat")

\* runner.launch("socat for docker", TCP4-LISTEN:ssh.port,bind=docker_interface)
LaunchSocat ==
    /\ pc = "c_socat"
    /\ Launch("socat for docker")
    /\ pc' = "c_ssh_wait"
    /\ UNCHANGED <<error, sshState, alias, dockerInterface, sshPort, socksPort,
                   localServerPort, exposed>>
    /\ UNCHANGED connectVars

\* ssh.wait() succeeds once the pod's SSH server answers through the port-forward.
SshReachable == procs["kubectl port-forward"] = "live"

\* Faulty variant: the exposure step runs for every method.
AfterSshWait_AlwaysExpose(m) == "c_expose"

\* Where connect() goes after ssh.wait(): exposure for the non-container
\* methods, straight to the SOCKS legs for container.
AfterSshWait(m) == IF m /= "container" THEN "c_expose" ELSE "c_socks_port"

\* Faulty variant: a failed ssh.wait() is ignored and connect() carries on.
SshWait_FailureIgnored ==
    /\ pc = "c_ssh_wait"
    /\ \/ /\ SshReachable
          /\ sshState' = "confirmed"
       \/ /\ sshState' = "failed"
    /\ pc' = AfterSshWait(method)
    /\ UNCHANGED <<error, procs, alias, dockerInterface, sshPort, socksPort,
                   localServerPort, exposed>>
    /\ UNCHANGED <<regVars, connectVars>>

\* ssh.wait(): returns with the session confirmed, or raises.
SshWait ==
    /\ pc = "c_ssh_wait"
    /\ \/ /\ SshReachable
          /\ sshState' = "confirmed"
          /\ pc' = AfterSshWait(method)
          /\ UNCHANGED error
       \/ /\ sshState' = "failed"
          /\ Fail("SshFailed")
    /\ UNCHANGED <<procs, alias, dockerInterface, sshPort, socksPort,
                   localServerPort, exposed>>
    /\ UNCHANGED <<regVars, connectVars>>

\* expose_local_services(runner, ssh, ...), non-container methods only.
Expose ==
    /\ pc = "c_expose"
    /\ exposed' = exposed + 1
    /\ \E ok \in BOOLEAN :
         IF ok THEN pc' = "c_socks_port" /\ UNCHANGED error
         ELSE Fail("ExposeFailed")
    /\ UNCHANGED <<procs, sshState, alias, dockerInterface, sshPort, socksPort,
                   localServerPort>>
    /\ UNCHANGED <<regVars, connectVars>>

\* socks_port = find_free_port()
FindSocksPort ==
    /\ pc = "c_socks_port"
    /\ \E port \in FreePorts : socksPort' = port
    /\ pc' = "c_ls_port"
    /\ UNCHANGED <<error, procs, sshState, alias, dockerInterface, sshPort,
                   localServerPort, exposed>>
    /\ UNCHANGED <<regVars, connectVars>>

\* local_server_port = find_free_port()
FindLocalServerPort ==
    /\ pc = "c_ls_port"
    /\ \E port \in FreePorts : localServerPort' = port
    /\ pc' = "c_local_server"
    /\ UNCHANGED <<error, procs, sshState, alias, dockerInterface, sshPort,
                   socksPort, exposed>>
    /\ UNCHANGED <<regVars, connectVars>>

\* runner.track_background(launch_local_server(local_server_port, ...))
LaunchLocalServer ==
    /\ pc = "c_local_server"
    /\ Launch("local server")
    /\ pc' = "c_ssh_fwd"
    /\ UNCHANGED <<error, sshState, alias, dockerInterface, sshPort, socksPort,
                   localServerPort, exposed>>
    /\ UNCHANGED connectVars

\* forward_args: -L127.0.0.1:socks_port:127.0.0.1:9050, -R9055:127.0.0.1:local_server_port
ForwardArgs ==
    { [dir |-> "L", bind |-> LOOPBACK, listen |-> socksPort,
       target |-> REMOTE_SOCKS_PORT],
      [dir |-> "R", bind |-> "", listen |-> REMOTE_POLL_PORT,
       target |-> localServerPort] }

\* runner.launch("SSH port forward (socks and proxy poll)", ssh.bg_command(forward_args))
LaunchSshForward ==
    /\ pc = "c_ssh_fwd"
    /\ Launch("SSH port forward")
    /\ pc' = "c_return"
    /\ UNCHANGED <<error, sshState, alias, dockerInterface, sshPort, socksPort,
                   localServerPort, exposed>>
    /\ UNCHANGED connectVars

\* return socks_port, ssh; the caller then runs the command for the method.
ConnectReturn ==
    /\ pc = "c_return"
    /\ connectResult' = "returned"
    /\ pc' = IF method = "container" THEN "running" ELSE "r_env"
    /\ UNCHANGED <<error, topoVars, regVars, cfgVars, cleanVars, torVars,
                   reinvoked, dockerProbe, envVars>>

\* A launched listener binds its address and port and listens; it exits at
\* once when another listener already holds them.
BecomeLive(p) ==
    /\ procs[p] = "launched"
    /\ LET taken == \E q \in Legs \ {p} :
                       /\ procs[q] = "live"
                       /\ BindPort(q) = BindPort(p)
                       /\ BindAddr(q) = BindAddr(p)
       IN procs' = [procs EXCEPT ![p] = IF taken THEN "dead" ELSE "live"]
    /\ UNCHANGED <<pc, error, sshState, alias, dockerInterface, sshPort,
                   socksPort, localServerPort, exposed>>
    /\ UNCHANGED <<regVars, connectVars>>

ListenerStarts == \E p \in Legs : BecomeLive(p)

\* ---------------------------------------------------- run_local_command()
launchVars == <<cfgVars, cleanVars, connectResult, reinvoked, sshState, alias,
                dockerInterface, sshPort, socksPort, localServerPort, exposed,
                dockerProbe>>

\* Faulty variant: the inject-tcp branch spawns the command without setup_torsocks.
AfterEnv_NoTorsocksSetup(m) ==
    CASE m = "inject-tcp" -> "r_spawn_torsocks"
      [] m = "vpn-tcp"    -> "r_sshuttle"
      [] OTHER            -> "r_register"

\* Where run_local_command() goes after building the environment:
\* "if args.method == 'inject-tcp' ... elif args.method == 'vpn-tcp' ...".
AfterEnv(m) ==
    CASE m = "inject-tcp" -> "t_conf"
      [] m = "vpn-tcp"    -> "r_sshuttle"
      [] OTHER            -> "r_register"

\* env = os.environ.copy() ... env["PATH"] = unsupported_tools_path + ":" + env["PATH"]
BuildEnv ==
    /\ pc = "r_env"
    /\ stubs' = get_unsupported_tools(DnsSupported(method))
    /\ \E ambient \in AmbientPaths :
          path' = <<unsupported_bin, ":">> \o ambient
    /\ pc' = AfterEnv(method)
    /\ UNCHANGED <<error, procs, regVars, torVars, launchVars, sipBin>>

\* setup_torsocks: write tel_torsocks.conf and point TORSOCKS_CONF_FILE at it.
WriteTorsocksConf ==
    /\ pc = "t_conf"
    /\ events' = Append(events, "conf")
    /\ pc' = IF platform = "darwin" THEN "t_sip" ELSE "t_clock"
    /\ UNCHANGED <<error, procs, regVars, attempts, elapsed, launchVars, envVars>>

\* setup_torsocks on darwin: env["PATH"] = sip_workaround(...)
SipWorkaround ==
    /\ pc = "t_sip"
    /\ path' = sip_workaround(path, unsupported_bin)
    /\ \E unreadable \in SUBSET MaybeUnreadable :
          sipBin' = SipCopies(unreadable)
    /\ pc' = "t_clock"
    /\ UNCHANGED <<error, procs, regVars, torVars, launchVars, stubs>>

\* start = time()
StartClock ==
    /\ pc = "t_clock"
    /\ elapsed' = 0
    /\ pc' = "t_check"
    /\ UNCHANGED <<error, procs, regVars, events, attempts, launchVars, envVars>>

\* Faulty variant: past the budget the loop falls through instead of raising.
LoopCheck_NoRaise ==
    /\ pc = "t_check"
    /\ IF elapsed < TimeoutTicks
       THEN /\ attempts' = attempts + 1
            /\ pc' = "t_probe"
       ELSE /\ pc' = "r_spawn_torsocks"
            /\ UNCHANGED attempts
    /\ UNCHANGED <<error, procs, regVars, events, elapsed, launchVars, envVars>>

\* "while time() - start < 10:" invoke the probe; past the budget,
\* raise RuntimeError("SOCKS network proxying failed to start...").
LoopCheck ==
    /\ pc = "t_check"
    /\ IF elapsed < TimeoutTicks
       THEN /\ attempts' = attempts + 1
            /\ pc' = "t_probe"
            /\ UNCHANGED error
       ELSE /\ Fail("SocksProxyingFailed")
            /\ UNCHANGED attempts
    /\ UNCHANGED <<procs, regVars, events, elapsed, launchVars, envVars>>

\* Faulty variant: the loop keeps retrying after a probe that succeeded.
AfterProbe_KeepsLooping(ok) == "t_sleep"

\* Where the loop goes when runner.check_call(["torsocks", "python3", ...])
\* comes back: "except CalledProcessError: sleep(0.1)", "else: return".
AfterProbe(ok) == IF ok THEN "r_spawn_torsocks" ELSE "t_sleep"

\* The probe process exits, with status zero or not, after some time.
ProbeReturn ==
    /\ pc = "t_probe"
    /\ \E ok \in BOOLEAN, d \in ProbeDurations :
         /\ elapsed' = elapsed + d
         /\ events' = Append(events, IF ok THEN "probe_ok" ELSE "probe_fail")
         /\ pc' = AfterProbe(ok)
    /\ UNCHANGED <<error, procs, regVars, attempts, launchVars, envVars>>

\* The probe process never exits: check_call is given no timeout and the
\* probe's socket none, so the call blocks for as long as the connection stalls.
ProbeHang ==
    /\ pc = "t_probe"
    /\ pc' = "t_hung"
    /\ UNCHANGED <<error, procs, regVars, torVars, launchVars, envVars>>

\* sleep(0.1)
Sleep ==
    /\ pc = "t_sleep"
    /\ elapsed' = elapsed + SleepTicks
    /\ pc' = "t_check"
    /\ UNCHANGED <<error, procs, regVars, events, attempts, launchVars, envVars>>

\* p = Popen(["torsocks"] + command, env=env)
SpawnTorsocks ==
    /\ pc = "r_spawn_torsocks"
    /\ procs' = [procs EXCEPT !["user"] = "live"]
    /\ events' = Append(events, "spawn")
    /\ pc' = "r_register"
    /\ UNCHANGED <<error, regVars, attempts, elapsed, launchVars, envVars>>

\* connect_sshuttle(runner, remote_info, args, env, ssh)
ConnectSshuttle ==
    /\ pc = "r_sshuttle"
    /\ Launch("sshuttle")
    /\ \E ok \in BOOLEAN :
         IF ok THEN pc' = "r_spawn" /\ UNCHANGED error
         ELSE Fail("SshuttleFailed")
    /\ UNCHANGED <<torVars, launchVars, envVars>>

\* p = Popen(command, env=env)
SpawnCommand ==
    /\ pc = "r_spawn"
    /\ procs' = [procs EXCEPT !["user"] = "live"]
    /\ events' = Append(events, "spawn")
    /\ pc' = "r_register"
    /\ UNCHANGED <<error, regVars, attempts, elapsed, launchVars, envVars>>

\* Faulty variant: the action is put at the bottom of the registry, not on top.
AddTerminateCleanup_Bottom ==
    /\ pc = "r_register"
    /\ registry' = <<TerminateAction>> \o registry
    /\ regLog' = Append(regLog, TerminateAction)
    /\ pc' = "r_return"
    /\ UNCHANGED <<error, procs, torVars, launchVars, envVars>>

\* runner.add_cleanup("Terminate local process", terminate_if_alive)
AddTerminateCleanup ==
    /\ pc = "r_register"
    /\ AddCleanup(TerminateAction)
    /\ pc' = "r_return"
    /\ UNCHANGED <<error, procs, torVars, launchVars, envVars>>

\* return p: p is unbound when neither branch assigned it.
ReturnProcess ==
    /\ pc = "r_return"
    /\ IF procs["user"] = "none"
       THEN Fail("UnboundLocalError")
       ELSE pc' = "running" /\ UNCHANGED error
    /\ UNCHANGED <<procs, regVars, torVars, launchVars, envVars>>

\* ------------------------------------------------------- the session
\* The user process exits of its own accord.
UserExit ==
    /\ procs["user"] = "live"
    /\ pc \in {"r_register", "r_return", "running"}
    /\ procs' = [procs EXCEPT !["user"] = "dead"]
    /\ UNCHANGED <<pc, error, regVars, torVars, launchVars, envVars>>

\* The session ends normally.
SessionEnd ==
    /\ pc = "running"
    /\ pc' = "cleanup"
    /\ UNCHANGED <<error, procs, regVars, torVars, launchVars, envVars>>

\* An interrupt signal arrives between two steps of setup or while running.
Interrupt ==
    /\ pc \notin {"cleanup", "exited"}
    /\ Fail("Interrupt")
    /\ UNCHANGED <<procs, regVars, torVars, launchVars, envVars>>

\* Calling a cleanup action:
\*   "Kill BG process": kill the child;
\*   "Mac Loopback": runner.check_call(["sudo", "ifconfig", "lo0", "-alias", ip]),
\*       which exits non-zero, so that check_call raises, when lo0 has no such alias;
\*   "Terminate local process": terminate_if_alive, "if p.poll() is None:
\*       kill_process(p)", with p unbound when no process was spawned.
Raises(a) ==
    \/ a.name = "Mac Loopback" /\ ~alias
    \/ a.name = "Terminate local process" /\ procs["user"] = "none"

Invoke(a) ==
    /\ alias' = IF a.name = "Mac Loopback" THEN FALSE ELSE alias
    /\ procs' = CASE a.name = "Kill BG process" /\ procs[a.proc] /= "none" ->
                       [procs EXCEPT ![a.proc] = "dead"]
                  [] a.name = "Terminate local process" /\ procs["user"] = "live" ->
                       [procs EXCEPT !["user"] = "dead"]
                  [] OTHER -> procs

\* Teardown: pop the registry and call the action, until it is empty.
RunCleanup ==
    /\ pc = "cleanup"
    /\ IF registry = <<>>
       THEN /\ pc' = "exited"
            /\ UNCHANGED <<registry, ran, cleanupErrors, alias, procs>>
       ELSE LET a == registry[Len(registry)] IN
            /\ Invoke(a)
            /\ registry' = SubSeq(registry, 1, Len(registry) - 1)
            /\ ran' = Append(ran, a)
            /\ cleanupErrors' = IF Raises(a) THEN Append(cleanupErrors, a)
                                 ELSE cleanupErrors
            /\ UNCHANGED pc
    /\ UNCHANGED <<error, regLog, cfgVars, torVars, connectResult, reinvoked,
                   sshState, dockerInterface, sshPort, socksPort,
                   localServerPort, exposed, dockerProbe, envVars>>

Next ==
    \/ LaunchKubectlLogs
    \/ NewSSH
    \/ LaunchPortForward
    \/ ResolveDockerInterface
    \/ RequireIfconfig
    \/ RequireSudo
    \/ AddLoopbackAlias
    \/ RegisterLoopbackCleanup
    \/ RequireSocat
    \/ LaunchSocat
    \/ SshWait
    \/ Expose
    \/ FindSocksPort
    \/ FindLocalServerPort
    \/ LaunchLocalServer
    \/ LaunchSshForward
    \/ ConnectReturn
    \/ ListenerStarts
    \/ BuildEnv
    \/ WriteTorsocksConf
    \/ SipWorkaround
    \/ StartClock
    \/ LoopCheck
    \/ ProbeReturn
    \/ ProbeHang
    \/ Sleep
    \/ SpawnTorsocks
    \/ ConnectSshuttle
    \/ SpawnCommand
    \/ AddTerminateCleanup
    \/ ReturnProcess
    \/ UserExit
    \/ SessionEnd
    \/ Interrupt
    \/ RunCleanup

Spec == Init /\ [][Next]_vars

\* The steps of connect() and run_local_command(): the orchestrator's own
\* statements, each a blocking call that the interpreter runs when reached.
SetupStep ==
    \/ LaunchKubectlLogs
    \/ NewSSH
    \/ LaunchPortForward
    \/ ResolveDockerInterface
    \/ RequireIfconfig
    \/ RequireSudo
    \/ AddLoopbackAlias
    \/ RegisterLoopbackCleanup
    \/ RequireSocat
    \/ LaunchSocat
    \/ SshWait
    \/ Expose
    \/ FindSocksPort
    \/ FindLocalServerPort
    \/ LaunchLocalServer
    \/ LaunchSshForward
    \/ ConnectReturn
    \/ BuildEnv
    \/ WriteTorsocksConf
    \/ SipWorkaround
    \/ StartClock
    \/ LoopCheck
    \/ ProbeReturn
    \/ ProbeHang
    \/ Sleep
    \/ SpawnTorsocks
    \/ ConnectSshuttle
    \/ SpawnCommand
    \/ AddTerminateCleanup
    \/ ReturnProcess

\* The session with its scheduling: the orchestrator always executes its next
\* statement, every listener that was launched comes up or exits, and
\* teardown runs to the end.  Nothing obliges a signal to arrive, the user
\* process to exit or the session to end.
FairSpec ==
    /\ Init
    /\ [][Next]_vars
    /\ WF_vars(SetupStep)
    /\ WF_vars(ListenerStarts)
    /\ WF_vars(RunCleanup)

\* A cleanup action that already ran is invoked a second time, as when a
\* teardown is entered again.
Reinvoke(a) ==
    /\ pc \in {"cleanup", "exited"}
    /\ Len(reinvoked) < MaxReinvoke
    /\ a \in Range(ran)
    /\ Invoke(a)
    /\ reinvoked' = Append(reinvoked,
                           [action |-> a.name,
                            raised |-> Raises(a),
                            changed |-> (alias' /= alias \/ procs' /= procs)])
    /\ UNCHANGED <<pc, error, regVars, cleanVars, cfgVars, torVars,
                   connectResult, sshState, dockerInterface, sshPort,
                   socksPort, localServerPort, exposed, dockerProbe, envVars>>

ReinvokeCleanup == \E a \in {MacLoopbackAction, TerminateAction} : Reinvoke(a)

NextReinvoke == Next \/ ReinvokeCleanup

SpecReinvoke == Init /\ [][NextReinvoke]_vars

\* run_local_command() is called on the result of connect() although the
\* method is container: the function takes any args.method.
RunLocalCommandForContainer ==
    /\ pc = "c_return"
    /\ method = "container"
    /\ connectResult' = "returned"
    /\ pc' = "r_env"
    /\ UNCHANGED <<error, topoVars, regVars, cfgVars, cleanVars, torVars,
                   reinvoked, dockerProbe, envVars>>

NextAnyMethod == Next \/ RunLocalCommandForContainer

\* The session in which run_local_command() is called for every method.
SpecAnyMethod == Init /\ [][NextAnyMethod]_vars

\* ------------------------------------------------------------ properties
\* The errors connect() raises at one of its own steps.
ConnectStepErrors ==
    {"NoIpOrIfconfig", "NoDockerInterface", "MissingIfconfig", "NoSudo",
     "AliasFailed", "MissingSocat", "SshFailed", "ExposeFailed"}

\* The child processes that carry the legs of a method.
MethodLegs(m) ==
    {"kubectl port-forward", "local server", "SSH port forward"}
        \cup (IF m = "container" THEN {"socat for docker"} ELSE {})

\* No child process is running, the loopback alias is gone and the registry
\* is empty.
NothingOutstanding ==
    /\ registry = <<>>
    /\ ~alias
    /\ \A p \in ProcNames : procs[p] \in {"none", "dead"}

\* connect() is returning in this step.
ConnectReturns == connectResult = "pending" /\ connectResult' = "returned"

\* C1, as claimed: connect() returns only after every leg of the method is
\* live (the SSH session confirmed, every listener listening), or it raises;
\* and once cleanup has run after a failed step nothing acquired is outstanding
\* and the registry is empty.
C1_ReturnsLiveOrRaisesClean ==
    /\ [][ConnectReturns =>
            /\ sshState = "confirmed"
            /\ \A p \in MethodLegs(method) : procs[p] = "live"]_vars
    /\ [](pc = "exited" /\ error \in ConnectStepErrors => NothingOutstanding)

\* C1, amended: connect() returns only after the SSH session is confirmed
\* through a listening port-forward and every other leg of the method has
\* been launched (launched, not confirmed live), or it raises; it never does
\* both; and once cleanup has run after a failed step nothing acquired is
\* outstanding and the registry is empty.
C1_ReturnsLaunchedOrRaisesClean ==
    /\ [][ConnectReturns =>
            /\ sshState = "confirmed"
            /\ procs["kubectl port-forward"] = "live"
            /\ \A p \in MethodLegs(method) : procs[p] /= "none"
            /\ socksPort \in Ports
            /\ error = "none"]_vars
    /\ [](connectResult = "returned" => error \notin ConnectStepErrors)
    /\ [](pc = "exited" /\ error \in ConnectStepErrors => NothingOutstanding)

\* C1 witness: connect() on macOS failed after the loopback alias was added,
\* and teardown has removed the alias and killed the children.
C1_Witness ==
    /\ pc = "exited"
    /\ error \in {"MissingSocat", "SshFailed"}
    /\ \E i \in 1..Len(ran) : ran[i] = MacLoopbackAction
    /\ procs["kubectl port-forward"] = "dead"

\* Position of the first occurrence of action a in sequence q, 0 when absent.
IndexOf(q, a) ==
    IF \E i \in 1..Len(q) : q[i] = a
    THEN CHOOSE i \in 1..Len(q) : q[i] = a /\ \A j \in 1..(i - 1) : q[j] /= a
    ELSE 0

\* Action a ran before action b (both ran).
RanBefore(a, b) ==
    (IndexOf(ran, a) > 0 /\ IndexOf(ran, b) > 0) => IndexOf(ran, a) < IndexOf(ran, b)

\* C2: at every point of the session the actions registered so far are
\* exactly those still in the registry followed by those already run taken
\* backwards, so teardown runs them in strict reverse order of registration,
\* each once; when the session has exited all of them have run; 'Terminate
\* local process' runs before the kills of the SSH forward and of the
\* port-forward, and 'Mac Loopback' runs after every action registered after it.
C2_ReverseOrderOnce ==
    /\ regLog = registry \o Reverse(ran)
    /\ \A i, j \in 1..Len(regLog) : i /= j => regLog[i] /= regLog[j]
    /\ pc = "exited" => ran = Reverse(regLog)
    /\ RanBefore(TerminateAction, KillAction("SSH port forward"))
    /\ RanBefore(TerminateAction, KillAction("kubectl port-forward"))
    /\ \A i \in 1..Len(regLog) :
         IndexOf(regLog, MacLoopbackAction) \in 1..(i - 1)
            => RanBefore(regLog[i], MacLoopbackAction)

\* C2 witness: an interrupted or ended session whose teardown ran 'Terminate
\* local process' first and the port-forward's kill after it.
C2_Witness ==
    /\ pc = "exited"
    /\ Len(ran) >= 5
    /\ ran[1] = TerminateAction
    /\ IndexOf(ran, KillAction("kubectl port-forward")) > 1

\* The port-forward is only launched: it is not listening yet.
PortForwardUnconfirmed == procs["kubectl port-forward"] /= "live"

\* The SSH session becomes confirmed in this step.
SshOpens == sshState /= "confirmed" /\ sshState' = "confirmed"

\* The relay listener is launched in this step.
RelayLaunches ==
    procs["socat for docker"] = "none" /\ procs'["socat for docker"] /= "none"

\* C4, as claimed: while the port-forward is launched but not confirmed
\* listening, neither is the SSH session opened nor the relay listener launched.
C4_NothingBeforePortForwardConfirmed ==
    [][PortForwardUnconfirmed => ~SshOpens /\ ~RelayLaunches]_vars

\* C4, amended: the SSH session is confirmed only while the port-forward is
\* listening; the relay listener of the container method is launched after the
\* port-forward has been launched, before ssh.wait(), without waiting for the
\* port-forward to be confirmed.
C4_SshAfterPortForwardConfirmed ==
    [][/\ SshOpens => ~PortForwardUnconfirmed
       /\ RelayLaunches => /\ procs["kubectl port-forward"] /= "none"
                           /\ sshState = "new"
                           /\ method = "container"]_vars

\* C4 witness: the relay listener has been launched while the port-forward is
\* launched and not yet listening, and connect() is about to call ssh.wait().
C4_Witness ==
    /\ pc = "c_ssh_wait"
    /\ procs["socat for docker"] = "launched"
    /\ procs["kubectl port-forward"] = "launched"
    /\ sshState = "new"

\* A leg carried by the SSH session has been requested, or the local poll
\* server started.
SshLegRequested ==
    \/ exposed > 0
    \/ procs["SSH port forward"] /= "none"
    \/ procs["local server"] /= "none"

\* C5: the exposure, the combined forward (SOCKS leg to remote 9050, poll leg
\* from remote 9055) and the local poll server are requested only once
\* ssh.wait() has returned successfully; after a failed ssh.wait() none is.
C5_LegsAfterSshWait ==
    /\ SshLegRequested => sshState = "confirmed"
    /\ sshState = "failed" =>
         /\ ~SshLegRequested
         /\ socksPort = NoPort /\ localServerPort = NoPort
         /\ pc \in {"cleanup", "exited"}
    /\ procs["SSH port forward"] /= "none" =>
         /\ \E f \in ForwardArgs :
               f.dir = "L" /\ f.listen = socksPort /\ f.target = REMOTE_SOCKS_PORT
         /\ \E f \in ForwardArgs :
               f.dir = "R" /\ f.listen = REMOTE_POLL_PORT
                  /\ f.target = localServerPort /\ localServerPort \in Ports

\* C5 witness: after a successful ssh.wait() the exposure ran and the combined
\* forward was launched.
C5_Witness ==
    /\ sshState = "confirmed"
    /\ exposed = 1
    /\ procs["SSH port forward"] = "launched"
    /\ procs["local server"] /= "none"


\* C3, as claimed: a cleanup action of connect() or run_local_command()
\* ('Mac Loopback', 'Terminate local process') invoked again after it ran
\* raises no error and leaves the resources as the first invocation left them.
C3_CleanupIdempotent ==
    \A i \in 1..Len(reinvoked) :
        reinvoked[i].action \in {"Mac Loopback", "Terminate local process"}
            => ~reinvoked[i].raised /\ ~reinvoked[i].changed

\* The probe results of the inject-tcp launch, in order.
IsProbeEvent(e) == e \in {"probe_ok", "probe_fail"}

ProbeEvents == SelectSeq(events, IsProbeEvent)

EventRank(e) ==
    CASE e = "conf" -> 1
      [] IsProbeEvent(e) -> 2
      [] OTHER -> 3

EventCount(e) == Cardinality({ i \in 1..Len(events) : events[i] = e })

\* C6: in the inject-tcp launch the configuration file is written (once),
\* then the probe is attempted (one or more times), then the user command is
\* spawned (once); no probe runs before the write, and the command is
\* spawned only right after a probe attempt that succeeded.
C6_ConfThenProbeThenSpawn ==
    method = "inject-tcp" =>
        /\ \A i, j \in 1..Len(events) :
              i < j => EventRank(events[i]) <= EventRank(events[j])
        /\ EventCount("conf") <= 1
        /\ EventCount("spawn") <= 1
        /\ attempts > 0 => EventCount("conf") = 1
        /\ procs["user"] /= "none" <=> EventCount("spawn") = 1
        /\ EventCount("spawn") = 1 =>
              /\ Len(events) >= 3
              /\ events[1] = "conf"
              /\ events[Len(events)] = "spawn"
              /\ events[Len(events) - 1] = "probe_ok"

\* C6 witness: the command was spawned after a failed and a successful probe.
C6_Witness ==
    /\ method = "inject-tcp"
    /\ events = <<"conf", "probe_fail", "probe_ok", "spawn">>
    /\ procs["user"] = "live"

C8_ReturnsAfterExactlyN ==
    /\ [](pc \in {"t_check", "t_sleep"} =>
            attempts = Len(ProbeEvents) /\ "probe_ok" \notin Range(events))
    /\ [](pc \in {"t_probe", "t_hung"} =>
            attempts = Len(ProbeEvents) + 1 /\ "probe_ok" \notin Range(events))
    /\ []("probe_ok" \in Range(events) =>
            /\ attempts = Len(ProbeEvents)
            /\ ProbeEvents[attempts] = "probe_ok"
            /\ \A i \in 1..(attempts - 1) : ProbeEvents[i] = "probe_fail")
    /\ [](pc = "r_spawn_torsocks" => "probe_ok" \in Range(events))
    /\ [][(pc = "t_probe" /\ events' = Append(events, "probe_ok"))
            => pc' = "r_spawn_torsocks"]_vars
    /\ [][(pc = "t_check" /\ elapsed < TimeoutTicks /\ pc' /= pc
              /\ error' = "none")
            => pc' = "t_probe" /\ attempts' = attempts + 1]_vars

\* C8 witness: the probe failed twice and succeeded on the third attempt, and
\* the loop has returned after three invocations.
C8_Witness ==
    /\ pc = "r_spawn_torsocks"
    /\ attempts = 3
    /\ ProbeEvents = <<"probe_fail", "probe_fail", "probe_ok">>

\* C9, as claimed: setup always comes to an end, by handing over to the
\* running session or by failing: no step of connect() or run_local_command()
\* waits forever, whatever the probe does.
C9_SetupTerminates == <>(pc \in {"running", "cleanup", "exited"})

\* The (address, port) endpoint a requested leg binds.
Endpoint(p) == <<BindAddr(p), BindPort(p)>>

AssignedPorts == << sshPort, socksPort, localServerPort >>

\* C10, as claimed: the three ports obtained from find_free_port() are
\* pairwise distinct, and no two legs (the relay listener included) bind the
\* same local endpoint.
C10_NoSharedLocalPort ==
    /\ \A i, j \in 1..3 :
          (i /= j /\ AssignedPorts[i] /= NoPort /\ AssignedPorts[j] /= NoPort)
              => AssignedPorts[i] /= AssignedPorts[j]
    /\ \A p, q \in Legs :
          (p /= q /\ procs[p] /= "none" /\ procs[q] /= "none")
              => Endpoint(p) /= Endpoint(q)

\* The addresses of the loopback interface: 127.0.0.1 and the alias that
\* connect() adds to lo0 on macOS.
LoopbackAddresses == {LOOPBACK, MAC_LOOPBACK_IP}

\* The listeners connect() has requested so far.
RequestedLegs == { p \in Legs : procs[p] /= "none" }

\* C11, as claimed: every local listener connect() creates (cluster
\* port-forward, container relay, SOCKS forward leg, local poll server) binds
\* a loopback address, on every method and platform.
C11_AllListenersOnLoopback ==
    \A p \in RequestedLegs : BindAddr(p) \in LoopbackAddresses

\* C11, amended: the port-forward, the SOCKS forward leg and the local poll
\* server bind 127.0.0.1; the container relay binds docker_interface, which
\* is an address of docker0 read from ip or ifconfig on Linux, not a loopback
\* address, and the lo0 alias on macOS.
C11_LoopbackExceptDockerRelay ==
    /\ \A p \in RequestedLegs \ {"socat for docker"} : BindAddr(p) = LOOPBACK
    /\ procs["socat for docker"] /= "none" =>
          /\ method = "container"
          /\ BindAddr("socat for docker") = dockerInterface
          /\ platform = "linux" =>
                /\ dockerInterface \in IPv4Tokens
                /\ dockerInterface \notin LoopbackAddresses
          /\ platform = "darwin" => dockerInterface = MAC_LOOPBACK_IP

\* C11 witness: a Linux container session whose relay listens on the docker0
\* address next to the three loopback listeners.
C11_Witness ==
    /\ method = "container"
    /\ platform = "linux"
    /\ connectResult = "returned"
    /\ \A p \in Legs : procs[p] = "live"
    /\ BindAddr("socat for docker") = "172.17.0.1"

\* C12: expose_local_services is called once by a connect() that returns
\* with method inject-tcp or vpn-tcp, and never more than once; with method
\* container it is never called on any path, the exposure step is never
\* reached, and a connect() that returns has started the relay listener.
C12_ExposeOnceUnlessContainer ==
    /\ exposed <= 1
    /\ (method /= "container" /\ connectResult = "returned") => exposed = 1
    /\ method = "container" =>
          /\ exposed = 0
          /\ pc /= "c_expose"
          /\ connectResult = "returned" => procs["socat for docker"] /= "none"
    /\ method /= "container" => procs["socat for docker"] = "none"

\* C12 witness: a vpn-tcp connect() has returned after one exposure call.
C12_Witness ==
    /\ method = "vpn-tcp"
    /\ connectResult = "returned"
    /\ exposed = 1
    /\ procs["socat for docker"] = "none"

\* The environment of the user command has been built.
EnvBuilt == path /= <<>>

\* The commands a session must shadow: name resolution is proxied by the
\* vpn-tcp method and not by inject-tcp.
Shadowed(m) ==
    IF m = "vpn-tcp" THEN {"ping", "traceroute"}
    ELSE {"ping", "traceroute", "nslookup", "dig", "host"}

\* C13: the stub directory of a session holds exactly one executable stub per
\* shadowed command and nothing else, the shadowed commands being ping and
\* traceroute, and nslookup, dig and host as well when the method cannot
\* proxy DNS; every stub names its own command and exits with status 55.
C13_OneStubPerShadowedCommand ==
    /\ ~EnvBuilt => stubs = {}
    /\ EnvBuilt =>
          /\ { f.name : f \in stubs } = Shadowed(method)
          /\ Cardinality(stubs) = Cardinality(Shadowed(method))
          /\ \A f \in stubs :
                /\ f.executable
                /\ f.script.says = f.name
                /\ f.script.exit = 55

\* C13 witness: an inject-tcp command runs with the five stubs in place, the
\* name-resolution tools among them.
C13_Witness ==
    /\ method = "inject-tcp"
    /\ procs["user"] = "live"
    /\ Cardinality(stubs) = 5
    /\ \E f \in stubs : f.name = "dig"

\* An inject-tcp session on macOS has spawned the user command.
SipCommandSpawned ==
    /\ method = "inject-tcp"
    /\ platform = "darwin"
    /\ procs["user"] /= "none"

\* The files of the four protected directories.
ProtectedFiles ==
    ListDir("/bin") \cup ListDir("/sbin") \cup ListDir("/usr/sbin")
        \cup ListDir("/usr/bin")

\* C14, as claimed: with inject-tcp on macOS, for every ambient search path,
\* the first entry of the search path given to the user command is the
\* private directory holding the copies of the protected directories' files.
C14_CopiesDirFirst ==
    SipCommandSpawned => Split(path)[1] = bin_dir

\* C14, amended: with inject-tcp on macOS, for every ambient search path, the
\* first entry of the search path given to the user command is the stub
\* directory and the second is the private directory of copies, which holds
\* a copy of every file of the four protected directories that could be read.
C14_CopiesDirSecond ==
    SipCommandSpawned =>
        /\ Split(path)[1] = unsupported_bin
        /\ Split(path)[2] = bin_dir
        /\ sipBin \subseteq ProtectedFiles
        /\ ProtectedFiles \ sipBin \subseteq MaybeUnreadable

\* C14 witness: the command of an inject-tcp session on macOS runs with a
\* search path that still has an ambient directory behind the two private
\* ones, and with the copies made.
C14_Witness ==
    /\ SipCommandSpawned
    /\ procs["user"] = "live"
    /\ Split(path) = <<unsupported_bin, bin_dir, unsupported_bin,
                       "/usr/local/bin">>
    /\ "ping" \in sipBin

\* An output holds an IPv4-looking token; the first such token.
HasIPv4(output) == \E i \in 1..Len(output) : output[i] \in IPv4Tokens

FirstIPv4(output) ==
    output[CHOOSE i \in 1..Len(output) :
              /\ output[i] \in IPv4Tokens
              /\ \A j \in 1..(i - 1) : output[j] \notin IPv4Tokens]

ResolutionErrors == {"NoIpOrIfconfig", "NoDockerInterface"}

C16_RegisteredWhenAcquired ==
    /\ alias => MacLoopbackAction \in Range(registry)
    /\ procs["user"] = "live" => TerminateAction \in Range(registry)

\* The entries of the search path, in the order they are searched.
PathEntries == Split(path)

\* sip_workaround has rewritten the search path.
WorkaroundApplied == bin_dir \in Range(PathEntries)

C18_TerminateOnlyForSpawnedProcess ==
    /\ TerminateAction \in Range(regLog) => procs["user"] /= "none"
    /\ method = "container" =>
          /\ procs["user"] = "none"
          /\ TerminateAction \notin Range(regLog)

====
